---- MODULE Spec2Model ----
(***************************************************************************)
(* State-machine model of the skill-sprint backend: the OKR routes         *)
(* (routes/okrs.js, stored here as src/unnamed/part_000), the OKR schema   *)
(* (src/models/OKR.js), the users route (src/routes/users.js) and the     *)
(* by-id reads of teams and departments (src/unnamed/part_001).            *)
(*                                                                         *)
(* Every route handler is one action.  A handler that ends in              *)
(* res.status(c) records c in `res`; the catch block of every handler is   *)
(* the 500 outcome.  Schema-defaulted time stamps that no handler reads    *)
(* (startDate, createdAt, updatedAt) are not part of the state.            *)
(***************************************************************************)
EXTENDS Integers, Sequences, FiniteSets, TLC

VARIABLES
    okrs,       \* the OKR collection: a function from stored ids to documents
    users,      \* the User collection (req.user is users[actor])
    now,        \* the wall clock read by `new Date()`
    res,        \* the response of the last handled request
    inflight,   \* requests that have loaded their document and not yet saved
    acked,      \* history: the comment requests answered 200, in that order
    lastKR,     \* history: keyResults of the last update request answered 200
    sent        \* history: the number of requests begun by Load

vars == <<okrs, users, now, res, inflight, acked, lastKR, sent>>

----------------------------------------------------------------------------
(* Bounds of the model *)

MaxTime == 1
MaxComments == 1
MaxKeyResults == 3
MaxRequests == 4

----------------------------------------------------------------------------
(* Values *)

Null == "null"
NoDate == -1

UserIds == {"u1", "u2", "u3"}
OkrIds == {"o1"}
MissingId == "o0"
TeamIds == {"T1", "T2"}
DepartmentIds == {"D1", "D2"}

StatusEnum == {"draft", "active", "completed", "cancelled"}
PriorityEnum == {"low", "medium", "high", "critical"}
AssignTypeEnum == {"user", "team"}

\* Users registered before the first request (registration is routes/auth).
InitUsers ==
    [u \in UserIds |->
        CASE u = "u1" -> [role |-> "admin", organization |-> "O1",
                          department |-> "D1", team |-> Null, firstName |-> "Ann", lastName |-> "Lee"]
          [] u = "u2" -> [role |-> "member", organization |-> "O1",
                          department |-> "D1", team |-> "T1", firstName |-> "Bob", lastName |-> "Lee"]
          [] OTHER    -> [role |-> "admin", organization |-> "O2",
                          department |-> "D2", team |-> Null, firstName |-> "Cy", lastName |-> "Lee"]]

\* Teams and departments stored before the first request.
TeamOrg == [t \in TeamIds |-> IF t = "T1" THEN "O1" ELSE "O2"]
DepartmentOrg == [d \in DepartmentIds |-> IF d = "D1" THEN "O1" ELSE "O2"]

KR(p) == [description |-> "kr", progress |-> p]

\* Request payloads.  A string field that is absent is "", which the
\* handlers treat like a missing one; an absent assignedTo is the empty set.
K1 == <<KR(0)>>
K2 == <<KR(0), KR(50), KR(100)>>
K3 == <<KR(33), KR(34)>>
KOut == <<KR(150)>>

Arr(items) == [isArray |-> TRUE, items |-> items]
NotArr == [isArray |-> FALSE, items |-> <<>>]

Assign(t, u, tm) == [type |-> t, user |-> u, team |-> tm]
AssignInputs ==
    { Assign("user", "u2", Null), Assign("user", Null, Null),
      Assign("team", Null, "T1") }

IsoDates == {"2025-01-01"}

Body(t, o, k, a, p, d, s) ==
    [title |-> t, objective |-> o, keyResults |-> k, assignedTo |-> a,
     priority |-> p, dueDate |-> d, status |-> s]

\* Payloads of the access-control specification: the assignment shapes,
\* the ways a request can be rejected, one accepted shape per route.
CreateBodies ==
    { Body("A", "O", Arr(K1), {a}, "", "2025-01-01", "") : a \in AssignInputs }
    \cup { Body("", "O", Arr(K1), {Assign("team", Null, "T1")}, "", "2025-01-01", ""),
           Body("A", "O", Arr(<<>>), {Assign("team", Null, "T1")}, "", "2025-01-01", ""),
           Body("A", "O", Arr(K1), {}, "", "2025-01-01", ""),
           Body("A", "O", Arr(K1), {Assign("group", Null, "T1")}, "", "soon", "") }

PutBodies ==
    { Body("B", "O", Arr(K2), {}, "", "2025-01-01", ""),
      Body("B", "O", Arr(K2), {}, "", "2025-01-01", "archived"),
      Body("", "O", NotArr, {}, "", "soon", "completed") }

PatchBodies == { NotArr, Arr(K3), Arr(KOut) }

CommentTexts == {"", " ", "ok"}

\* req.query of GET /api/okrs.
Query(st, p, at) == [status |-> st, priority |-> p, assignedTo |-> at]

Queries == { Query("", "", at) : at \in {"", "me", "team"} }

\* Every filter combination a claim quantifies over.
AllQueries ==
    { Query(st, p, at) : st \in {""} \cup StatusEnum, p \in {""} \cup PriorityEnum,
                         at \in {"", "me", "team", "other"} }

\* Payloads of the lifecycle specification: every status, with and without
\* a priority, sent by the administrator u1.
LifeActors == {"u1"}

LifeCreateBodies ==
    { Body("A", "O", Arr(K1), {Assign("user", "u2", Null)}, p, "2025-01-01", "") :
        p \in {"", "high"} }

LifePutBodies ==
    { Body("B", "O", Arr(K2), {}, p, "2025-01-01", s) :
        p \in {"", "high"},
        s \in {"", "draft", "active", "completed", "cancelled", "archived"} }

LifePatchBodies == { Arr(<<>>), Arr(K3), Arr(KOut) }

\* Requests of the interleaving specification, all well-formed and aimed
\* at the stored OKR o1.
Req(op, a, body, k, text) ==
    [op |-> op, actor |-> a, body |-> body, k |-> k, text |-> text]

ConcBody == Body("B", "O", Arr(K2), {}, "", "2025-01-01", "active")

ConcRequests ==
    { Req("update", "u1", ConcBody, Arr(K2), ""),
      Req("progress", "u2", ConcBody, Arr(K3), ""),
      Req("progress", "u1", ConcBody, Arr(<<>>), ""),
      Req("comment", "u1", ConcBody, Arr(<<>>), "ok"),
      Req("comment", "u2", ConcBody, Arr(<<>>), "ok"),
      Req("delete", "u1", ConcBody, Arr(<<>>), "") }

\* Fields a client adds to req.body that no handler destructures.
ClientFields ==
    [organization |-> "O2", department |-> "D2", team |-> "T2",
     assignedBy |-> "u3", isActive |-> FALSE, completedDate |-> 0]

\* Payloads of the ownership and listing specification: both assignment
\* variants, priority supplied or omitted, with and without client-sent
\* ownership fields and status.
ScopeCreateBodies ==
    { Body("A", "O", Arr(K1), {a}, p, "2025-01-01", "") :
        a \in {Assign("user", "u2", Null), Assign("team", Null, "T1")},
        p \in {"", "high"} }
    \cup { Body("A", "O", Arr(K1), {Assign("user", "u2", Null)}, p,
                "2025-01-01", "completed") @@ ClientFields : p \in {"", "high"} }

ScopePutBodies ==
    { Body("A", "O", Arr(K1), {}, "", "2025-01-01", "active") @@ ClientFields,
      Body("A", "O", Arr(K1), {Assign("team", Null, "T1")}, "high", "2025-01-01", "") }

ScopeQueries ==
    { Query("", "", ""), Query("active", "", ""), Query("", "high", ""),
      Query("", "", "me"), Query("", "", "team"), Query("", "", "other"),
      Query("draft", "high", "me"), Query("draft", "medium", "team") }

\* req.body of PUT /api/users/:id; "" is a field that was not sent.
UserBody(f, l, t, d) == [firstName |-> f, lastName |-> l, team |-> t, department |-> d]

UserBodies ==
    { UserBody("", "", "", ""), UserBody("Zed", "Young", "", ""),
      UserBody("", "", "T2", "D2") }

\* Key-result lists of the progress specification.
ProgressValues == {0, 1, 33, 34, 50, 99, 100}

KeyResultLists ==
    UNION { [1..n -> {KR(v) : v \in ProgressValues}] : n \in 0..MaxKeyResults }

NoRes == [op |-> "none", actor |-> Null, id |-> Null, code |-> 0,
          overall |-> NoDate, list |-> {}, query |-> Query("", "", "")]

Response(op, a, id, code) ==
    [op |-> op, actor |-> a, id |-> id, code |-> code,
     overall |-> NoDate, list |-> {}, query |-> Query("", "", "")]

----------------------------------------------------------------------------
(* models/OKR.js *)

RECURSIVE SumProgress(_)
SumProgress(krs) ==
    IF krs = <<>> THEN 0 ELSE Head(krs).progress + SumProgress(Tail(krs))

\* Rounding by truncation.
MathRound_floor(n, d) == n \div d

\* Math.round: the integer nearest to n/d, a tie going to the larger one.
MathRound(n, d) == (2 * n + d) \div (2 * d)

calculateProgress(okr) ==
    IF Len(okr.keyResults) = 0 THEN 0
    ELSE MathRound(SumProgress(okr.keyResults), Len(okr.keyResults))

overallProgress(okr) == calculateProgress(okr)

\* String setter `trim: true`.
Trim(s) == IF s = " " THEN "" ELSE s

\* The validators of okrSchema, run by save().
SchemaValid(okr) ==
    /\ Trim(okr.title) # ""
    /\ Trim(okr.objective) # ""
    /\ \A i \in 1..Len(okr.keyResults) :
          /\ Trim(okr.keyResults[i].description) # ""
          /\ okr.keyResults[i].progress >= 0
          /\ okr.keyResults[i].progress <= 100
    /\ okr.assignedTo.type \in AssignTypeEnum
    /\ okr.assignedBy # Null
    /\ okr.organization # Null
    /\ okr.status \in StatusEnum
    /\ okr.priority \in PriorityEnum
    /\ \A i \in 1..Len(okr.comments) :
          /\ okr.comments[i].user # Null
          /\ Trim(okr.comments[i].text) # ""

----------------------------------------------------------------------------
(* routes/okrs.js: request validation (express-validator chains) *)

notEmpty(s) == s # ""
isISO8601(d) == d \in IsoDates

KeyResultsErrors(k, min) ==
    \/ ~k.isArray
    \/ Len(k.items) < min
    \/ \E i \in 1..Len(k.items) : ~notEmpty(k.items[i].description)

CreateErrors(body) ==
    \/ ~notEmpty(body.title)
    \/ ~notEmpty(body.objective)
    \/ KeyResultsErrors(body.keyResults, 1)
    \/ body.assignedTo = {}
    \/ \E a \in body.assignedTo : a.type \notin {"user", "team"}
    \/ ~isISO8601(body.dueDate)

UpdateErrors(body) ==
    \/ ~notEmpty(body.title)
    \/ ~notEmpty(body.objective)
    \/ KeyResultsErrors(body.keyResults, 1)
    \/ ~isISO8601(body.dueDate)

ProgressErrors(k) == ~k.isArray

CommentErrors(text) == ~notEmpty(text)

----------------------------------------------------------------------------
(* routes/okrs.js: what each handler does to the document it loaded *)

FindById(id) == IF id \in DOMAIN okrs THEN {okrs[id]} ELSE {}

TheOne(S) == CHOOSE x \in S : TRUE

\* A create that lets the client's own ownership fields and status through.
NewOkr_client(a, body) ==
    [title |-> Trim(body.title),
     objective |-> Trim(body.objective),
     keyResults |-> body.keyResults.items,
     assignedTo |-> TheOne(body.assignedTo),
     assignedBy |-> IF "assignedBy" \in DOMAIN body THEN body.assignedBy ELSE a,
     organization |-> IF "organization" \in DOMAIN body THEN body.organization
                      ELSE users[a].organization,
     department |-> users[a].department,
     team |-> users[a].team,
     status |-> IF body.status # "" THEN body.status ELSE "draft",
     priority |-> IF body.priority # "" THEN body.priority ELSE "medium",
     dueDate |-> body.dueDate,
     completedDate |-> NoDate,
     comments |-> <<>>,
     isActive |-> TRUE]

\* new OKR({...}) of POST /api/okrs, with the schema defaults.
NewOkr(a, body) ==
    [title |-> Trim(body.title),
     objective |-> Trim(body.objective),
     keyResults |-> body.keyResults.items,
     assignedTo |-> TheOne(body.assignedTo),
     assignedBy |-> a,
     organization |-> users[a].organization,
     department |-> users[a].department,
     team |-> users[a].team,
     status |-> "draft",
     priority |-> IF body.priority # "" THEN body.priority ELSE "medium",
     dueDate |-> body.dueDate,
     completedDate |-> NoDate,
     comments |-> <<>>,
     isActive |-> TRUE]

\* An update that keeps completedDate in step with the status.
ApplyUpdate_clear(okr, body, t) ==
    [okr EXCEPT
        !.title = Trim(body.title),
        !.objective = Trim(body.objective),
        !.keyResults = body.keyResults.items,
        !.priority = IF body.priority # "" THEN body.priority ELSE @,
        !.dueDate = body.dueDate,
        !.assignedTo = IF body.assignedTo # {} THEN TheOne(body.assignedTo) ELSE @,
        !.status = IF body.status # "" THEN body.status ELSE @,
        !.completedDate = IF body.status = "completed" THEN t
                          ELSE IF body.status # "" THEN NoDate ELSE @]

\* The assignments of PUT /api/okrs/:id, made at time t.
ApplyUpdate(okr, body, t) ==
    [okr EXCEPT
        !.title = Trim(body.title),
        !.objective = Trim(body.objective),
        !.keyResults = body.keyResults.items,
        !.priority = IF body.priority # "" THEN body.priority ELSE @,
        !.dueDate = body.dueDate,
        !.assignedTo = IF body.assignedTo # {} THEN TheOne(body.assignedTo) ELSE @,
        !.status = IF body.status # "" THEN body.status ELSE @,
        !.completedDate = IF body.status = "completed" THEN t ELSE @]

\* A progress update that activates a draft.
ApplyProgress_activate(okr, k) ==
    [okr EXCEPT !.keyResults = k.items,
                !.status = IF @ = "draft" THEN "active" ELSE @]

\* The assignment of PATCH /api/okrs/:id/progress.
ApplyProgress(okr, k) == [okr EXCEPT !.keyResults = k.items]

\* okr.comments.push of POST /api/okrs/:id/comments.
ApplyComment(okr, a, text) ==
    [okr EXCEPT !.comments = Append(@, [user |-> a, text |-> Trim(text)])]

\* The assignment of DELETE /api/okrs/:id.
ApplyDelete(okr) == [okr EXCEPT !.isActive = FALSE]

\* `okr.assignedTo.user.toString()` is reached, with no user stored, when
\* the two disjuncts before it are false: the handler throws into its catch.
AssigneeThrows(okr, a) ==
    /\ users[a].role # "admin"
    /\ okr.assignedBy # a
    /\ okr.assignedTo.type = "user"
    /\ okr.assignedTo.user = Null

canUpdate(okr, a) ==
    \/ users[a].role = "admin"
    \/ okr.assignedBy = a
    \/ (okr.assignedTo.type = "user" /\ okr.assignedTo.user = a)

canUpdateProgress(okr, a) ==
    \/ users[a].role = "admin"
    \/ okr.assignedBy = a
    \/ (okr.assignedTo.type = "user" /\ okr.assignedTo.user = a)

\* A delete rule that reuses the update rule.
canDelete_assignee(okr, a) ==
    \/ users[a].role = "admin"
    \/ okr.assignedBy = a
    \/ (okr.assignedTo.type = "user" /\ okr.assignedTo.user = a)

canDelete(okr, a) ==
    \/ users[a].role = "admin"
    \/ okr.assignedBy = a

----------------------------------------------------------------------------
(* okr.save() of a loaded document.  Mongoose sends the paths modified     *)
(* since the load: $set for an assigned path whose value changed, $push    *)
(* for comments.push.  An assigned array is always sent, and makes the     *)
(* update conditional on the document's version being the loaded one; a    *)
(* $push only increments the version.  `stale` says that the version has   *)
(* been incremented since the document was loaded.                         *)

Pick(stored, loaded, new) == IF new # loaded THEN new ELSE stored

SaveFails(new, setsArray, stale) ==
    \/ ~SchemaValid(new)
    \/ (setsArray /\ stale)

\* A save that writes the whole in-memory document back.
Saved_whole(stored, loaded, new, setsArray) == new

Saved(stored, loaded, new, setsArray) ==
    [title |-> Pick(stored.title, loaded.title, new.title),
     objective |-> Pick(stored.objective, loaded.objective, new.objective),
     keyResults |-> IF setsArray THEN new.keyResults ELSE stored.keyResults,
     assignedTo |->
        [type |-> Pick(stored.assignedTo.type, loaded.assignedTo.type, new.assignedTo.type),
         user |-> Pick(stored.assignedTo.user, loaded.assignedTo.user, new.assignedTo.user),
         team |-> Pick(stored.assignedTo.team, loaded.assignedTo.team, new.assignedTo.team)],
     assignedBy |-> Pick(stored.assignedBy, loaded.assignedBy, new.assignedBy),
     organization |-> Pick(stored.organization, loaded.organization, new.organization),
     department |-> Pick(stored.department, loaded.department, new.department),
     team |-> Pick(stored.team, loaded.team, new.team),
     status |-> Pick(stored.status, loaded.status, new.status),
     priority |-> Pick(stored.priority, loaded.priority, new.priority),
     dueDate |-> Pick(stored.dueDate, loaded.dueDate, new.dueDate),
     completedDate |-> Pick(stored.completedDate, loaded.completedDate, new.completedDate),
     comments |-> stored.comments
                  \o SubSeq(new.comments, Len(loaded.comments) + 1, Len(new.comments)),
     isActive |-> Pick(stored.isActive, loaded.isActive, new.isActive)]

----------------------------------------------------------------------------
(* routes/okrs.js: the status code each handler answers with.  `found` is  *)
(* the result of findById (empty when there is no such document).          *)

CreateCode(a, body) ==
    IF CreateErrors(body) THEN 400
    ELSE IF ~SchemaValid(NewOkr(a, body)) THEN 500
    ELSE 201

UpdateCode(found, a, body, t, stale) ==
    IF UpdateErrors(body) THEN 400
    ELSE IF found = {} THEN 404
    ELSE IF AssigneeThrows(TheOne(found), a) THEN 500
    ELSE IF ~canUpdate(TheOne(found), a) THEN 403
    ELSE IF SaveFails(ApplyUpdate(TheOne(found), body, t), TRUE, stale) THEN 500
    ELSE 200

ProgressCode(found, a, k, stale) ==
    IF ProgressErrors(k) THEN 400
    ELSE IF found = {} THEN 404
    ELSE IF AssigneeThrows(TheOne(found), a) THEN 500
    ELSE IF ~canUpdateProgress(TheOne(found), a) THEN 403
    ELSE IF SaveFails(ApplyProgress(TheOne(found), k), TRUE, stale) THEN 500
    ELSE 200

CommentCode(found, a, text) ==
    IF CommentErrors(text) THEN 400
    ELSE IF found = {} THEN 404
    ELSE IF SaveFails(ApplyComment(TheOne(found), a, text), FALSE, FALSE) THEN 500
    ELSE 200

DeleteCode(found, a) ==
    IF found = {} THEN 404
    ELSE IF ~canDelete(TheOne(found), a) THEN 403
    ELSE IF SaveFails(ApplyDelete(TheOne(found)), FALSE, FALSE) THEN 500
    ELSE 200

GetCode(found, a) ==
    IF found = {} THEN 404
    ELSE IF TheOne(found).organization # users[a].organization THEN 403
    ELSE 200

\* The filter of GET /api/okrs and what OKR.find(filter) returns.
\* A filter that forgets isActive.
Matches_inactive(okr, a, q) ==
    /\ okr.organization = users[a].organization
    /\ (q.status # "") => (okr.status = q.status)
    /\ (q.priority # "") => (okr.priority = q.priority)
    /\ IF q.assignedTo = "me" THEN okr.assignedTo.user = a
       ELSE IF q.assignedTo = "team" /\ users[a].team # Null
            THEN okr.assignedTo.team = users[a].team
            ELSE TRUE

\* A list filter that applies the team filter to an actor without a team.
Matches_teamless(okr, a, q) ==
    /\ okr.organization = users[a].organization
    /\ okr.isActive = TRUE
    /\ (q.status # "") => (okr.status = q.status)
    /\ (q.priority # "") => (okr.priority = q.priority)
    /\ IF q.assignedTo = "me" THEN okr.assignedTo.user = a
       ELSE IF q.assignedTo = "team"
            THEN okr.assignedTo.team = users[a].team
            ELSE TRUE

Matches(okr, a, q) ==
    /\ okr.organization = users[a].organization
    /\ okr.isActive = TRUE
    /\ (q.status # "") => (okr.status = q.status)
    /\ (q.priority # "") => (okr.priority = q.priority)
    /\ IF q.assignedTo = "me" THEN okr.assignedTo.user = a
       ELSE IF q.assignedTo = "team" /\ users[a].team # Null
            THEN okr.assignedTo.team = users[a].team
            ELSE TRUE

ListResult(a, q) == { id \in DOMAIN okrs : Matches(okrs[id], a, q) }

\* res.json(okr): the document serialised with its virtuals.
WithDoc(r, okr) == [r EXCEPT !.overall = overallProgress(okr)]

----------------------------------------------------------------------------
(* The handlers, each run from its first line to its response with no      *)
(* other request in between.                                               *)

Ids == OkrIds \cup {MissingId}

Init ==
    /\ okrs = [i \in {} |-> 0]
    /\ users = InitUsers
    /\ now = 0
    /\ res = NoRes
    /\ inflight = [s \in {} |-> 0]
    /\ acked = <<>>
    /\ lastKR = <<>>
    /\ sent = 0

\* POST /api/okrs
CreateOkr(a, body) ==
    LET code == CreateCode(a, body) IN
    /\ (code = 201) => (OkrIds \ DOMAIN okrs # {})
    /\ IF code = 201
       THEN LET id == TheOne(OkrIds \ DOMAIN okrs) IN
            /\ okrs' = [i \in DOMAIN okrs \cup {id} |->
                          IF i = id THEN NewOkr(a, body) ELSE okrs[i]]
            /\ res' = WithDoc(Response("create", a, id, code), NewOkr(a, body))
       ELSE /\ okrs' = okrs
            /\ res' = Response("create", a, Null, code)
    /\ UNCHANGED <<users, now, inflight, acked, lastKR, sent>>

\* PUT /api/okrs/:id
UpdateOkr(a, id, body) ==
    LET code == UpdateCode(FindById(id), a, body, now, FALSE) IN
    /\ IF code = 200
       THEN LET new == Saved(okrs[id], okrs[id], ApplyUpdate(okrs[id], body, now), TRUE) IN
            /\ okrs' = [okrs EXCEPT ![id] = new]
            /\ res' = WithDoc(Response("update", a, id, code), new)
       ELSE /\ okrs' = okrs
            /\ res' = Response("update", a, id, code)
    /\ UNCHANGED <<users, now, inflight, acked, lastKR, sent>>

\* PATCH /api/okrs/:id/progress
UpdateProgress(a, id, k) ==
    LET code == ProgressCode(FindById(id), a, k, FALSE) IN
    /\ IF code = 200
       THEN LET new == Saved(okrs[id], okrs[id], ApplyProgress(okrs[id], k), TRUE) IN
            /\ okrs' = [okrs EXCEPT ![id] = new]
            /\ res' = WithDoc(Response("progress", a, id, code), new)
       ELSE /\ okrs' = okrs
            /\ res' = Response("progress", a, id, code)
    /\ UNCHANGED <<users, now, inflight, acked, lastKR, sent>>

\* POST /api/okrs/:id/comments
AddComment(a, id, text) ==
    LET code == CommentCode(FindById(id), a, text) IN
    /\ (code = 200) => (Len(okrs[id].comments) < MaxComments)
    /\ IF code = 200
       THEN LET new == Saved(okrs[id], okrs[id], ApplyComment(okrs[id], a, text), FALSE) IN
            /\ okrs' = [okrs EXCEPT ![id] = new]
            /\ res' = WithDoc(Response("comment", a, id, code), new)
       ELSE /\ okrs' = okrs
            /\ res' = Response("comment", a, id, code)
    /\ UNCHANGED <<users, now, inflight, acked, lastKR, sent>>

\* A delete that saves the flag before it checks the permission.
DeleteOkr_early(a, id) ==
    LET code == DeleteCode(FindById(id), a) IN
    /\ IF code \in {200, 403}
       THEN okrs' = [okrs EXCEPT ![id] =
                        Saved(okrs[id], okrs[id], ApplyDelete(okrs[id]), FALSE)]
       ELSE okrs' = okrs
    /\ res' = Response("delete", a, id, code)
    /\ UNCHANGED <<users, now, inflight, acked, lastKR, sent>>

\* DELETE /api/okrs/:id
DeleteOkr(a, id) ==
    LET code == DeleteCode(FindById(id), a) IN
    /\ IF code = 200
       THEN okrs' = [okrs EXCEPT ![id] =
                        Saved(okrs[id], okrs[id], ApplyDelete(okrs[id]), FALSE)]
       ELSE okrs' = okrs
    /\ res' = Response("delete", a, id, code)
    /\ UNCHANGED <<users, now, inflight, acked, lastKR, sent>>

\* GET /api/okrs/:id
GetOkr(a, id) ==
    LET code == GetCode(FindById(id), a) IN
    /\ res' = IF code = 200 THEN WithDoc(Response("get", a, id, code), okrs[id])
              ELSE Response("get", a, id, code)
    /\ UNCHANGED <<okrs, users, now, inflight, acked, lastKR, sent>>

\* GET /api/okrs
ListOkrs(a, q) ==
    /\ res' = [Response("list", a, Null, 200) EXCEPT !.list = ListResult(a, q),
                                                     !.query = q]
    /\ UNCHANGED <<okrs, users, now, inflight, acked, lastKR, sent>>

\* Time passes between requests.
Tick ==
    /\ now < MaxTime
    /\ now' = now + 1
    /\ UNCHANGED <<okrs, users, res, inflight, acked, lastKR, sent>>

Next ==
    \/ \E a \in UserIds, body \in CreateBodies : CreateOkr(a, body)
    \/ \E a \in UserIds, id \in Ids, body \in PutBodies : UpdateOkr(a, id, body)
    \/ \E a \in UserIds, id \in Ids, k \in PatchBodies : UpdateProgress(a, id, k)
    \/ \E a \in UserIds, id \in Ids, text \in CommentTexts : AddComment(a, id, text)
    \/ \E a \in UserIds, id \in Ids : DeleteOkr(a, id)
    \/ \E a \in UserIds, id \in Ids : GetOkr(a, id)
    \/ \E a \in UserIds, q \in Queries : ListOkrs(a, q)

Spec == Init /\ [][Next]_vars

\* The lifecycle of one OKR under the administrator's requests.
LifeNext ==
    \/ \E a \in LifeActors, body \in LifeCreateBodies : CreateOkr(a, body)
    \/ \E a \in LifeActors, id \in OkrIds, body \in LifePutBodies : UpdateOkr(a, id, body)
    \/ \E a \in LifeActors, id \in OkrIds, k \in LifePatchBodies : UpdateProgress(a, id, k)
    \/ \E a \in LifeActors, id \in OkrIds : AddComment(a, id, "ok")
    \/ \E a \in LifeActors, id \in OkrIds : DeleteOkr(a, id)
    \/ \E a \in LifeActors, id \in OkrIds : GetOkr(a, id)
    \/ Tick

LifeSpec == Init /\ [][LifeNext]_vars

\* Reads of one stored OKR, for every key-result list the schema accepts.
ProgressInit ==
    /\ users = InitUsers
    /\ \E krs \in KeyResultLists :
          okrs = [i \in {"o1"} |->
                    ApplyProgress(NewOkr("u1", TheOne(LifeCreateBodies)), Arr(krs))]
    /\ now = 0
    /\ res = NoRes
    /\ inflight = [s \in {} |-> 0]
    /\ acked = <<>>
    /\ lastKR = <<>>
    /\ sent = 0

ProgressNext ==
    \/ \E a \in {"u1", "u2"} : GetOkr(a, "o1")
    \/ \E a \in {"u1", "u2"} : ListOkrs(a, Query("", "", ""))

ProgressSpec == ProgressInit /\ [][ProgressNext]_vars

----------------------------------------------------------------------------
(* Interleaved requests on one OKR.  A request loads the document          *)
(* (findById) in one step and runs the rest of its handler, up to the      *)
(* response, in a later one; other requests may save in between.           *)

ConcInit ==
    /\ users = InitUsers
    /\ okrs = [i \in {"o1"} |->
                 NewOkr("u1", Body("A", "O", Arr(K1), {Assign("user", "u2", Null)},
                                   "", "2025-01-01", ""))]
    /\ now = 0
    /\ res = NoRes
    /\ inflight = [s \in {} |-> 0]
    /\ acked = <<>>
    /\ lastKR = <<>>
    /\ sent = 0

\* const okr = await OKR.findById(req.params.id)
Load(r) ==
    /\ sent < MaxRequests
    /\ sent' = sent + 1
    /\ inflight' = [s \in DOMAIN inflight \cup {sent + 1} |->
                      IF s = sent + 1
                      THEN [req |-> r, found |-> FindById("o1"), stale |-> FALSE]
                      ELSE inflight[s]]
    /\ UNCHANGED <<okrs, users, now, res, acked, lastKR>>

CommitCode(f) ==
    CASE f.req.op = "update" ->
             UpdateCode(f.found, f.req.actor, f.req.body, now, f.stale)
      [] f.req.op = "progress" ->
             ProgressCode(f.found, f.req.actor, f.req.k, f.stale)
      [] f.req.op = "comment" ->
             CommentCode(f.found, f.req.actor, f.req.text)
      [] OTHER -> DeleteCode(f.found, f.req.actor)

\* The document as the handler modified it in memory.
CommitDoc(f) ==
    LET loaded == TheOne(f.found) IN
    CASE f.req.op = "update" -> ApplyUpdate(loaded, f.req.body, now)
      [] f.req.op = "progress" -> ApplyProgress(loaded, f.req.k)
      [] f.req.op = "comment" -> ApplyComment(loaded, f.req.actor, f.req.text)
      [] OTHER -> ApplyDelete(loaded)

SetsArray(op) == op \in {"update", "progress"}
IncrementsVersion(op) == op \in {"update", "progress", "comment"}

\* The rest of the handler: permission check, assignments, save, response.
Commit(s) ==
    LET f == inflight[s]
        code == CommitCode(f)
        op == f.req.op
        rest == DOMAIN inflight \ {s}
    IN  /\ IF code = 200
           THEN /\ okrs' = [okrs EXCEPT !["o1"] =
                              Saved(okrs["o1"], TheOne(f.found), CommitDoc(f), SetsArray(op))]
                /\ res' = IF op = "delete" THEN Response(op, f.req.actor, "o1", code)
                          ELSE WithDoc(Response(op, f.req.actor, "o1", code), okrs'["o1"])
                /\ inflight' = [t \in rest |->
                                  IF IncrementsVersion(op)
                                  THEN [inflight[t] EXCEPT !.stale = TRUE]
                                  ELSE inflight[t]]
                /\ acked' = IF op = "comment"
                            THEN Append(acked, [user |-> f.req.actor,
                                                text |-> Trim(f.req.text),
                                                seen |-> Len(TheOne(f.found).comments)])
                            ELSE acked
                /\ lastKR' = IF SetsArray(op) THEN <<CommitDoc(f).keyResults>> ELSE lastKR
           ELSE /\ okrs' = okrs
                /\ res' = Response(op, f.req.actor, "o1", code)
                /\ inflight' = [t \in rest |-> inflight[t]]
                /\ UNCHANGED <<acked, lastKR>>
        /\ UNCHANGED <<users, now, sent>>

ConcNext ==
    \/ \E r \in ConcRequests : Load(r)
    \/ \E s \in DOMAIN inflight : Commit(s)

ConcSpec == ConcInit /\ [][ConcNext]_vars

----------------------------------------------------------------------------
(* routes/users.js, and the by-id reads of routes/teams.js and             *)
(* routes/departments.js                                                   *)

\* The assignments of PUT /api/users/:id.
ApplyProfile(user, body) ==
    [user EXCEPT
        !.firstName = IF body.firstName # "" THEN body.firstName ELSE @,
        !.lastName = IF body.lastName # "" THEN body.lastName ELSE @,
        !.team = IF body.team # "" THEN body.team ELSE @,
        !.department = IF body.department # "" THEN body.department ELSE @]

canUpdateProfile(a, id) ==
    \/ users[a].role = "admin"
    \/ a = id

UpdateUserCode(a, id) ==
    IF id \notin DOMAIN users THEN 404
    ELSE IF ~canUpdateProfile(a, id) THEN 403
    ELSE 200

\* The organization check shared by the GET /:id handlers.
GetByIdCode(exists, organization, a) ==
    IF ~exists THEN 404
    ELSE IF organization # users[a].organization THEN 403
    ELSE 200

\* PUT /api/users/:id
UpdateUser(a, id, body) ==
    LET code == UpdateUserCode(a, id) IN
    /\ users' = IF code = 200 THEN [users EXCEPT ![id] = ApplyProfile(users[id], body)]
                ELSE users
    /\ res' = Response("updateUser", a, id, code)
    /\ UNCHANGED <<okrs, now, inflight, acked, lastKR, sent>>

\* GET /api/users/:id
GetUser(a, id) ==
    /\ res' = Response("getUser", a, id,
                       GetByIdCode(id \in DOMAIN users,
                                   IF id \in DOMAIN users THEN users[id].organization
                                   ELSE Null, a))
    /\ UNCHANGED <<okrs, users, now, inflight, acked, lastKR, sent>>

\* GET /api/teams/:id
GetTeam(a, id) ==
    /\ res' = Response("getTeam", a, id,
                       GetByIdCode(id \in TeamIds,
                                   IF id \in TeamIds THEN TeamOrg[id] ELSE Null, a))
    /\ UNCHANGED <<okrs, users, now, inflight, acked, lastKR, sent>>

\* GET /api/departments/:id
GetDepartment(a, id) ==
    /\ res' = Response("getDepartment", a, id,
                       GetByIdCode(id \in DepartmentIds,
                                   IF id \in DepartmentIds THEN DepartmentOrg[id]
                                   ELSE Null, a))
    /\ UNCHANGED <<okrs, users, now, inflight, acked, lastKR, sent>>

DirNext ==
    \/ \E a \in UserIds, id \in UserIds \cup {MissingId}, body \in UserBodies :
          UpdateUser(a, id, body)
    \/ \E a \in UserIds, id \in UserIds \cup {MissingId} : GetUser(a, id)
    \/ \E a \in UserIds, id \in TeamIds \cup {MissingId} : GetTeam(a, id)
    \/ \E a \in UserIds, id \in DepartmentIds \cup {MissingId} : GetDepartment(a, id)

DirSpec == Init /\ [][DirNext]_vars

\* Ownership and listing: every user creates, edits, deletes and lists.
ScopeNext ==
    \/ \E a \in UserIds, body \in ScopeCreateBodies : CreateOkr(a, body)
    \/ \E a \in UserIds, id \in OkrIds, body \in ScopePutBodies : UpdateOkr(a, id, body)
    \/ \E a \in UserIds, id \in OkrIds : UpdateProgress(a, id, Arr(K3))
    \/ \E a \in UserIds, id \in OkrIds : AddComment(a, id, "ok")
    \/ \E a \in UserIds, id \in OkrIds : DeleteOkr(a, id)
    \/ \E a \in UserIds, q \in ScopeQueries : ListOkrs(a, q)

ScopeSpec == Init /\ [][ScopeNext]_vars

----------------------------------------------------------------------------
(* Properties *)

\* What the specification calls the OKR write rule.
WriteRule(okr, a) ==
    \/ users[a].role = "admin"
    \/ a = okr.assignedBy
    \/ (okr.assignedTo.type = "user" /\ okr.assignedTo.user = a)

AssigneeOnly(okr, a) ==
    /\ okr.assignedTo.type = "user"
    /\ okr.assignedTo.user = a
    /\ okr.assignedBy # a
    /\ users[a].role # "admin"

\* The organization of the record a response is about.
C1_RecordOrg(r) ==
    CASE r.op \in {"get", "update", "progress", "comment", "delete"} ->
             IF r.id \in DOMAIN okrs THEN okrs[r.id].organization ELSE Null
      [] r.op \in {"getUser", "updateUser"} ->
             IF r.id \in DOMAIN users THEN users[r.id].organization ELSE Null
      [] r.op = "getTeam" -> IF r.id \in TeamIds THEN TeamOrg[r.id] ELSE Null
      [] r.op = "getDepartment" ->
             IF r.id \in DepartmentIds THEN DepartmentOrg[r.id] ELSE Null
      [] OTHER -> Null

\* C1: an actor of another organization is refused (403) by every
\* single-record operation on a stored Department, Team, User or OKR whose
\* input is well-formed, and the record is left as it was.
C1_CrossOrgForbidden ==
    [][(/\ C1_RecordOrg(res') # Null
        /\ C1_RecordOrg(res') # users[res'.actor].organization
        /\ res'.code # 400)
       => (res'.code = 403 /\ okrs' = okrs /\ users' = users)]_vars

\* C2: a full update or a progress update with valid input is applied
\* exactly when the actor passes the write rule; any other actor, also on
\* an OKR of type 'user' that stores no user, is refused (403) and the OKR
\* is unchanged.
C2_UpdateExactlyWhenPermitted ==
    [][\A a \in UserIds, id \in DOMAIN okrs :
          /\ \A body \in PutBodies :
                (/\ UpdateOkr(a, id, body)
                 /\ ~UpdateErrors(body)
                 /\ SchemaValid(ApplyUpdate(okrs[id], body, now)))
                => IF WriteRule(okrs[id], a)
                   THEN res'.code = 200 /\ okrs'[id] = ApplyUpdate(okrs[id], body, now)
                   ELSE res'.code = 403 /\ okrs' = okrs
          /\ \A k \in PatchBodies :
                (/\ UpdateProgress(a, id, k)
                 /\ ~ProgressErrors(k)
                 /\ SchemaValid(ApplyProgress(okrs[id], k)))
                => IF WriteRule(okrs[id], a)
                   THEN res'.code = 200 /\ okrs'[id] = ApplyProgress(okrs[id], k)
                   ELSE res'.code = 403 /\ okrs' = okrs]_vars

\* Every action of Spec answers a request, so in a step of Spec res' is the
\* response of the handler that took the step: res'.op names the handler,
\* res'.actor and res'.id its actor and its target.

\* C3: a delete succeeds, and sets isActive to false, only for an admin or
\* the assigner; a user who is only the assignee is refused (403) and the
\* OKR stays active, while that user's progress updates and comments on the
\* same OKR are not refused and are stored.
C3_DeleteOnlyAdminOrAssigner ==
    [][(res'.id \in DOMAIN okrs) =>
        LET a == res'.actor
            id == res'.id
        IN  /\ (res'.op = "delete") =>
                  IF users[a].role = "admin" \/ okrs[id].assignedBy = a
                  THEN res'.code = 200 /\ okrs'[id].isActive = FALSE
                  ELSE res'.code = 403 /\ okrs' = okrs
            /\ (res'.op = "delete" /\ AssigneeOnly(okrs[id], a)) =>
                  (res'.code = 403 /\ okrs'[id].isActive = okrs[id].isActive)
            /\ (res'.op = "progress" /\ AssigneeOnly(okrs[id], a)) =>
                  /\ res'.code \in {200, 400, 500}
                  /\ (res'.code = 400) => (okrs' = okrs)
                  /\ (res'.code = 500) => (okrs' = okrs)
                  /\ (res'.code = 200) => (okrs'[id].keyResults \in {k.items : k \in PatchBodies})
            /\ (res'.op = "comment" /\ AssigneeOnly(okrs[id], a)) =>
                  /\ res'.code \in {200, 400, 500}
                  /\ (res'.code = 200) =>
                        (/\ Len(okrs'[id].comments) = Len(okrs[id].comments) + 1
                         /\ okrs'[id].comments[Len(okrs'[id].comments)].user = a)]_vars

C3_Witness ==
    /\ res.op = "delete"
    /\ res.code = 403
    /\ res.id \in DOMAIN okrs
    /\ AssigneeOnly(okrs[res.id], res.actor)
    /\ okrs[res.id].isActive
    /\ okrs[res.id].comments # <<>>
    /\ okrs[res.id].comments[1].user = res.actor
    /\ okrs[res.id].keyResults = K3

\* C7: an OKR is never removed, and once deleted it stays inactive; a
\* delete answered 200 changes isActive to false and nothing else; an
\* inactive OKR is in no list result of any actor under any filter, and GET
\* by its id still answers 200 to every actor of its organization.
C7_Deleted ==
    \A id \in DOMAIN okrs :
        (~okrs[id].isActive) =>
            /\ \A a \in UserIds, q \in AllQueries : id \notin ListResult(a, q)
            /\ \A a \in UserIds :
                  (users[a].organization = okrs[id].organization)
                  => (GetCode(FindById(id), a) = 200)

C7_Step ==
    /\ DOMAIN okrs \subseteq DOMAIN okrs'
    /\ \A id \in DOMAIN okrs : (~okrs[id].isActive) => (~okrs'[id].isActive)
    /\ (res'.op = "delete" /\ res'.code = 200) =>
          (okrs' = [okrs EXCEPT ![res'.id].isActive = FALSE])
    /\ (res'.op = "list") => (\A id \in res'.list : okrs'[id].isActive)
    /\ (res'.op = "get" /\ res'.id \in DOMAIN okrs
            /\ users[res'.actor].organization = okrs[res'.id].organization)
          => (res'.code = 200)

C7_SoftDelete == [][C7_Step]_vars /\ []C7_Deleted

C7_Witness ==
    /\ res.op = "get"
    /\ res.code = 200
    /\ res.id \in DOMAIN okrs
    /\ ~okrs[res.id].isActive

\* C10: a request answered 400, 403 or 404 leaves the store as it was; the
\* store changes only by the whole effect of one accepted request; input
\* validation is answered before the lookup, and the lookup before the
\* permission check.
C10_WholeEffect ==
    LET a == res'.actor
        id == res'.id
    IN  CASE res'.op = "create" ->
                 /\ res'.code = 201
                 /\ id \notin DOMAIN okrs
                 /\ \E body \in {b \in CreateBodies : ~CreateErrors(b)} :
                        okrs' = [i \in DOMAIN okrs \cup {id} |->
                                    IF i = id THEN NewOkr(a, body) ELSE okrs[i]]
          [] res'.op = "update" ->
                 /\ res'.code = 200
                 /\ \E body \in PutBodies :
                        okrs' = [okrs EXCEPT ![id] = ApplyUpdate(okrs[id], body, now)]
          [] res'.op = "progress" ->
                 /\ res'.code = 200
                 /\ \E k \in PatchBodies :
                        okrs' = [okrs EXCEPT ![id] = ApplyProgress(okrs[id], k)]
          [] res'.op = "comment" ->
                 /\ res'.code = 200
                 /\ \E text \in CommentTexts :
                        okrs' = [okrs EXCEPT ![id] = ApplyComment(okrs[id], a, text)]
          [] res'.op = "delete" ->
                 /\ res'.code = 200
                 /\ okrs' = [okrs EXCEPT ![id] = ApplyDelete(okrs[id])]
          [] OTHER -> FALSE

C10_Order ==
    LET a == res'.actor
        id == res'.id
    IN  /\ (res'.code = 404) => (id \notin DOMAIN okrs)
        /\ (res'.code = 403) => (id \in DOMAIN okrs)
        /\ (res'.op = "update" /\ res'.code \in {403, 404}) =>
              \A body \in PutBodies :
                  UpdateOkr(a, id, body) => ~UpdateErrors(body)
        /\ (res'.op = "progress" /\ res'.code \in {403, 404}) =>
              \A k \in PatchBodies :
                  UpdateProgress(a, id, k) => ~ProgressErrors(k)
        /\ (res'.op = "comment" /\ res'.code \in {403, 404}) =>
              \A text \in CommentTexts :
                  AddComment(a, id, text) => ~CommentErrors(text)

C10_NoPartialWrite ==
    [][/\ (res'.code \in {400, 403, 404}) => (okrs' = okrs /\ users' = users)
       /\ (okrs' # okrs) => C10_WholeEffect
       /\ C10_Order]_vars

C10_Witness ==
    /\ res.op = "delete"
    /\ res.code = 403
    /\ res.id \in DOMAIN okrs
    /\ okrs[res.id].isActive

\* In a step of LifeSpec that leaves the clock alone, a handler ran and
\* res' is its response.

\* C5: completedDate is written once: it is unset until a step takes the
\* status into 'completed', that step sets it, and no later step writes or
\* clears it.
C5_CompletedDateOnce ==
    [][\A id \in DOMAIN okrs :
          /\ (okrs[id].completedDate # NoDate) =>
                (okrs'[id].completedDate = okrs[id].completedDate)
          /\ (okrs[id].completedDate = NoDate /\ okrs'[id].completedDate # NoDate) =>
                (/\ okrs[id].status # "completed"
                 /\ okrs'[id].status = "completed"
                 /\ okrs'[id].completedDate = now)]_vars

\* C6: an accepted full update that supplies 'completed' sets completedDate
\* to the time of the update; one that supplies draft, active or cancelled
\* is accepted whatever the stored status, overwrites the status and leaves
\* completedDate as it was; one that supplies no status changes neither.
C6_StatusAndCompletedDate ==
    [][\A a \in LifeActors, id \in DOMAIN okrs, body \in LifePutBodies :
          (res'.op = "update" /\ now' = now /\ UpdateOkr(a, id, body)) =>
              /\ (body.status \in {"", "draft", "active", "completed", "cancelled"})
                    => (res'.code = 200)
              /\ (res'.code = 200 /\ body.status = "completed") =>
                    (/\ okrs'[id].status = "completed"
                     /\ okrs'[id].completedDate = now)
              /\ (res'.code = 200 /\ body.status \in {"draft", "active", "cancelled"}) =>
                    (/\ okrs'[id].status = body.status
                     /\ okrs'[id].completedDate = okrs[id].completedDate)
              /\ (res'.code = 200 /\ body.status = "") =>
                    (/\ okrs'[id].status = okrs[id].status
                     /\ okrs'[id].completedDate = okrs[id].completedDate)]_vars

C6_Witness ==
    /\ res.op = "update"
    /\ res.code = 200
    /\ res.id \in DOMAIN okrs
    /\ okrs[res.id].status = "active"
    /\ okrs[res.id].completedDate # NoDate
    /\ okrs[res.id].completedDate < now

\* C9: an accepted progress update stores the supplied array, the empty one
\* included, as keyResults and changes no other field of the OKR.
C9_ProgressFrame ==
    [][\A a \in LifeActors, id \in DOMAIN okrs, k \in LifePatchBodies :
          (res'.op = "progress" /\ now' = now /\ UpdateProgress(a, id, k)) =>
              /\ (k = Arr(<<>>)) => (res'.code = 200)
              /\ (res'.code = 200) =>
                    (/\ okrs'[id].keyResults = k.items
                     /\ \A f \in DOMAIN okrs[id] \ {"keyResults"} :
                            okrs'[id][f] = okrs[id][f])
              /\ (res'.code # 200) => (okrs' = okrs)]_vars

C9_Witness ==
    /\ res.op = "progress"
    /\ res.code = 200
    /\ res.id \in DOMAIN okrs
    /\ okrs[res.id].keyResults = <<>>
    /\ okrs[res.id].status = "completed"
    /\ okrs[res.id].completedDate # NoDate
    /\ okrs[res.id].comments # <<>>
    /\ okrs[res.id].title = "B"

\* C8: overallProgress is 0 for an empty key-result list and otherwise the
\* integer nearest to the mean of the progress values, a half rounding up;
\* it lies in 0..100 when every progress does; every read serialises the
\* value computed from the stored key results.
RECURSIVE C8_Total(_, _)
C8_Total(krs, i) == IF i = 0 THEN 0 ELSE krs[i].progress + C8_Total(krs, i - 1)

C8_Nearest(krs, r) ==
    LET n == Len(krs)
        t == C8_Total(krs, n)
    IN  IF n = 0 THEN r = 0
        ELSE /\ n * (2 * r - 1) <= 2 * t
             /\ 2 * t < n * (2 * r + 1)

C8_OverallProgress ==
    /\ \A id \in DOMAIN okrs :
          /\ C8_Nearest(okrs[id].keyResults, overallProgress(okrs[id]))
          /\ (\A i \in 1..Len(okrs[id].keyResults) :
                 okrs[id].keyResults[i].progress \in 0..100)
             => (overallProgress(okrs[id]) \in 0..100)
    /\ (res.op = "get" /\ res.code = 200) =>
          C8_Nearest(okrs[res.id].keyResults, res.overall)
    /\ overallProgress([keyResults |-> K2]) = 50
    /\ overallProgress([keyResults |-> K3]) = 34

C8_Witness ==
    /\ res.op = "get"
    /\ res.code = 200
    /\ okrs[res.id].keyResults = K3 \o <<KR(34)>>
    /\ res.overall = 34

\* C4: under every interleaving, the stored comments are exactly the
\* comments of the append requests answered 200, in the order of their
\* saves, so none is lost to a concurrent append, update, progress update
\* or delete; the stored keyResults are those of the last full or progress
\* update answered 200; an update that loaded the OKR before another
\* request's update, progress update or comment was saved is answered 500
\* and changes nothing.
C4_Comments ==
    /\ Len(okrs["o1"].comments) = Len(acked)
    /\ \A i \in 1..Len(acked) :
          /\ okrs["o1"].comments[i].user = acked[i].user
          /\ okrs["o1"].comments[i].text = acked[i].text

C4_StaleRejected ==
    \A s \in DOMAIN inflight :
        (Commit(s) /\ SetsArray(inflight[s].req.op) /\ inflight[s].stale)
        => (res'.code = 500 /\ okrs' = okrs)

C11_AssignedToOneVariant ==
    \A id \in DOMAIN okrs :
        \/ /\ okrs[id].assignedTo.type = "user"
           /\ okrs[id].assignedTo.user # Null
           /\ okrs[id].assignedTo.team = Null
        \/ /\ okrs[id].assignedTo.type = "team"
           /\ okrs[id].assignedTo.team # Null
           /\ okrs[id].assignedTo.user = Null

\* C12: a successful create stores the acting user as assignedBy and the
\* acting user's organization, department and team, whatever the client
\* sent; status 'draft', the supplied priority or 'medium', completedDate
\* unset, isActive true; and no step changes a stored OKR's assignedBy or
\* organization.
C12_OwnershipFromActor ==
    [][/\ \A a \in UserIds, body \in ScopeCreateBodies :
             (res'.op = "create" /\ res'.code = 201 /\ CreateOkr(a, body)) =>
                 LET okr == okrs'[res'.id] IN
                 /\ okr.assignedBy = a
                 /\ okr.organization = users[a].organization
                 /\ okr.department = users[a].department
                 /\ okr.team = users[a].team
                 /\ okr.status = "draft"
                 /\ okr.priority = (IF body.priority = "" THEN "medium"
                                    ELSE body.priority)
                 /\ okr.completedDate = NoDate
                 /\ okr.isActive = TRUE
       /\ \A id \in DOMAIN okrs :
             /\ id \in DOMAIN okrs'
             /\ okrs'[id].assignedBy = okrs[id].assignedBy
             /\ okrs'[id].organization = okrs[id].organization]_vars

\* An OKR created by u1 and later fully updated by its assignee u2 with a
\* body that carries client-sent ownership fields.
C12_Witness ==
    /\ res.op = "update" /\ res.code = 200 /\ res.actor = "u2"
    /\ "o1" \in DOMAIN okrs
    /\ okrs["o1"].assignedBy = "u1"
    /\ okrs["o1"].organization = "O1"
    /\ okrs["o1"].status = "active"
    /\ okrs["o1"].priority = "high"

\* The list the claim describes for actor a and query q.
C13_Expected(a, q) ==
    { id \in DOMAIN okrs :
        /\ okrs[id].organization = users[a].organization
        /\ okrs[id].isActive
        /\ (q.status # "") => (okrs[id].status = q.status)
        /\ (q.priority # "") => (okrs[id].priority = q.priority)
        /\ (q.assignedTo = "me") => (okrs[id].assignedTo.user = a)
        /\ (q.assignedTo = "team" /\ users[a].team # Null) =>
              (okrs[id].assignedTo.team = users[a].team) }

C13_ActiveOfOrg(a) ==
    { id \in DOMAIN okrs :
        okrs[id].organization = users[a].organization /\ okrs[id].isActive }

\* C13: the list operation returns exactly the active OKRs of the actor's
\* organization that satisfy every supplied filter; with no filter, or with
\* assignedTo = 'team' alone for an actor without a team, it returns all
\* of them; it never contains an OKR of another organization.
C13_ListExactlyMatching ==
    /\ \A a \in UserIds, q \in AllQueries :
          /\ ListResult(a, q) = C13_Expected(a, q)
          /\ ListResult(a, q) \subseteq C13_ActiveOfOrg(a)
          /\ (q.status = "" /\ q.priority = "" /\
              (q.assignedTo \notin {"me", "team"} \/
               (q.assignedTo = "team" /\ users[a].team = Null)))
                => (ListResult(a, q) = C13_ActiveOfOrg(a))
    /\ (res.op = "list") =>
          /\ res.code = 200
          /\ res.list = C13_Expected(res.actor, res.query)

\* A list answered with the OKR that passes a status, a priority and an
\* assignee filter at once.
C13_Witness ==
    /\ res.op = "list"
    /\ res.query = Query("draft", "high", "me")
    /\ res.list = {"o1"}

====
